---- MODULE Spec2Model ----
(***************************************************************************)
(* State-machine model of the market-area ordering, the preset scoping,   *)
(* the usage ledger, the map configurations, the projects with their      *)
(* cascade, the label positions and the TCG themes of backend/api         *)
(* (models.py, serializers.py, views.py, management/commands).            *)
(*                                                                         *)
(* The database is the state: one set of rows per table.  Every request    *)
(* handler is one atomic action.  The latest request and its response are  *)
(* kept in `last`, the tables as they were when that request arrived in    *)
(* `before`; ResponseSent hands the response over and lets the next        *)
(* request in.  SpecConcurrent and SpecRace split the market-area create *)
(* and the reorder into the steps of two workers instead.                  *)
(***************************************************************************)
EXTENDS Integers, Sequences, FiniteSets, TLC

\* ---------------------------------------------------------------- bounds
\* Highest value of the logical clock that stamps last_modified.
MaxTime == 6
\* Longest `order` list a reorder request carries.
MaxOrderLen == 3
\* Highest value of the clock at which a preset is saved.
MaxPresetTime == 4
\* Highest value of the clock at which a map configuration is saved.
MaxMapTime == 4
\* Highest value of the clock (in ticks) at which usage is recorded.
MaxUsageTime == 63
\* Longest `labels` list a batch_save request carries.
MaxLabels == 2
\* Highest value of the clock at which a reorder that runs beside another
\* one saves a row.
MaxRaceTime == 9
\* Highest value of the clock at which a row is stored in a project that
\* is deleted later.
MaxProjectTime == 3
\* Highest value of the clock at which a body carries style_settings.
MaxStyleTime == 1

\* ------------------------------------------------------------ value sets
NULL == "null"
\* A request field that is not present in the body.
Absent == -1
\* The pk of no row.
NoId == 0
\* A text field that is not present in the body.
NotSent == "not sent"
ProjectIds == {"p1", "p2"}
\* uuid4 values are opaque: a new row takes the least id that is not in use.
MaIds == 1..3
MaNames == {"North", "South", "East"}
\* Values a client may send for the (read-only) `order` field.
BodyOrders == {Absent, 2}
\* style_settings as JSON text: dict() and the dict that save() fills in
EmptyStyle == "{}"
DefaultStyle == "{fillColor: #0078D4, fillOpacity: 0.3, borderColor: #0078D4, borderWidth: 2}"
\* the style_settings a body carries, if any
BodyStyles == {NotSent, "{fillColor: #ff0000}"}
PresetIds == 1..3
PresetKinds == {"style", "variable"}
PresetNames == {"S1", "S2"}

VARIABLES
    market_areas,       \* rows of api_marketarea
    presets,            \* rows of api_stylepreset and api_variablepreset
    ledger,             \* rows of enrichment_usage
    map_configurations, \* rows of api_mapconfiguration
    projects,           \* ids of the rows of api_project
    label_positions,    \* rows of api_labelposition
    tcg_themes,         \* rows of api_tcgtheme
    inflight,           \* the requests that run concurrently, one per worker
    now,                \* logical clock: next value of timezone.now()
    last,               \* the latest request with its response
    before              \* the tables as they were when that request arrived

vars == <<market_areas, presets, ledger, map_configurations, projects,
          label_positions, tcg_themes, inflight, now, last, before>>

\* ------------------------------------------------------------- requests
\* project: the project of the URL (market areas) or of the body (presets);
\* ctx: the ?project= query parameter of a preset request;
\* body: the ids of the rows a list response carries.
\* user, cost: user_id and cost of a record_usage body; start, end, users:
\* the start_date, end_date and user_id parameters of an export;
\* stats: the mapping a usage_stats_all response carries;
\* data: the layer_configuration of a map-configuration body;
\* pc: how far a worker has got with the request; taken: whether the name
\* of a market-area create was in use when the request arrived;
\* labels, map: the labels and the map_configuration_id of a batch_save body;
\* color_key_id, fill_color: the two colour fields of a TcgTheme body;
\* rows, written: the rows a reorder has fetched and not saved yet, and the
\* rows it has saved inside its transaction; seen: the orders it has read;
\* commit: the time at which its transaction was committed.
NoRequest ==
    [op |-> "none", kind |-> NULL, ctx |-> NULL, project |-> NULL, id |-> NoId,
     name |-> NULL, body_order |-> Absent, body_global |-> FALSE,
     order |-> <<>>, status |-> 0, body |-> <<>>,
     user |-> NoId, cost |-> NULL, start |-> Absent, end |-> Absent,
     users |-> {}, stats |-> <<>>, data |-> NULL,
     pc |-> "idle", taken |-> FALSE,
     labels |-> <<>>, map |-> NoId, color_key_id |-> Absent,
     fill_color |-> NotSent, rows |-> <<>>, written |-> {},
     seen |-> {}, commit |-> 0, style |-> NotSent]

Tables == [market_areas |-> market_areas, presets |-> presets,
           ledger |-> ledger, map_configurations |-> map_configurations,
           projects |-> projects, label_positions |-> label_positions,
           tcg_themes |-> tcg_themes]

\* An element of the `order` list of a reorder body: a string that parses
\* to the uuid `id`; canon tells whether the string is the canonical
\* (lower-case, hyphenated) text that str(uuid) produces.
OrderEntries == [id : MaIds, canon : BOOLEAN]

RECURSIVE SeqsOfLen(_, _)
SeqsOfLen(S, n) ==
    IF n = 0 THEN {<<>>}
    ELSE {Append(s, e) : s \in SeqsOfLen(S, n - 1), e \in S}

\* The order lists a client sends: at most one id of a list is written in
\* a non-canonical form.
OrderLists ==
    {s \in UNION {SeqsOfLen(OrderEntries, n) : n \in 0..MaxOrderLen} :
        Cardinality({i \in DOMAIN s : ~s[i].canon}) <= 1}

\* str(market_area.id)
StrUuid(id) == [id |-> id, canon |-> TRUE]

\* uuid.uuid4 for a new row of a table whose pks are `used`.
FreshIds(ids, used) ==
    {i \in ids : i \notin used /\ \A j \in ids : j < i => j \in used}

\* ----------------------------------------------------------- MarketArea
\* Model.__init__ applies the field defaults: id = uuid.uuid4(), order = 0,
\* style_settings = dict().
NewMarketArea(fresh, project, name, order) ==
    [id |-> fresh, project |-> project, name |-> name,
     order |-> IF order = Absent THEN 0 ELSE order,
     style_settings |-> EmptyStyle, last_modified |-> 0]

\* The serializer writes style_settings when the body carries it.
WriteStyle(inst, style) ==
    IF style = NotSent THEN inst ELSE [inst EXCEPT !.style_settings = style]

\* aggregate(Max('order'))['order__max']; None when the project has no row.
MaxOrder(db, project) ==
    LET rows == {m \in db : m.project = project}
    IN  IF rows = {} THEN Absent
        ELSE CHOOSE o \in {m.order : m \in rows} : \A m \in rows : m.order <= o

\* (last_order or 0) + 1
NextOrder(db, project) ==
    LET last_order == MaxOrder(db, project)
    IN  (IF last_order = Absent THEN 0 ELSE last_order) + 1

\* MarketArea.save: empty style_settings are replaced by the default
\* style; the order is computed only when the instance has neither an
\* order nor an id; auto_now stamps last_modified.
MarketAreaSave(db, inst, t) ==
    LET style == IF inst.style_settings = EmptyStyle
                 THEN DefaultStyle
                 ELSE inst.style_settings
        order == IF inst.order = 0 /\ inst.id = NoId
                 THEN NextOrder(db, inst.project)
                 ELSE inst.order
    IN  {m \in db : m.id # inst.id}
            \cup {[inst EXCEPT !.style_settings = style, !.order = order,
                               !.last_modified = t]}

NameTakenOff(db, project, name, self) == FALSE

\* unique_together = ['project', 'name']
NameTaken(db, project, name, self) ==
    \E m \in db : m.project = project /\ m.name = name /\ m.id # self

ValidatedOrderWritable(body_order) == body_order

\* read_only_fields = [..., 'order']: the serializer drops the field.
ValidatedOrder(body_order) == Absent

\* ordering = ['order', '-last_modified']
Precedes(a, b) ==
    \/ a.order < b.order
    \/ a.order = b.order /\ a.last_modified > b.last_modified

RECURSIVE SortRows(_)
SortRows(S) ==
    IF S = {} THEN <<>>
    ELSE LET m == CHOOSE x \in S : \A y \in S \ {x} : ~Precedes(y, x)
         IN  <<m>> \o SortRows(S \ {m})

IdsOf(rows) == [i \in DOMAIN rows |-> rows[i].id]

RECURSIVE SeqsOfAll(_)
\* The sequences that hold each row of S once.
SeqsOfAll(S) ==
    IF S = {} THEN {<<>>}
    ELSE UNION {{<<x>> \o s : s \in SeqsOfAll(S \ {x})} : x \in S}

\* queryset.order_by('order'): the explicit order_by replaces Meta.ordering,
\* so rows of equal order come in whatever order the database returns them.
OrderByOrder(S) ==
    {s \in SeqsOfAll(S) :
        \A i, j \in DOMAIN s : i < j => s[i].order <= s[j].order}

RECURSIVE SortByRecency(_)
SortByRecency(S) ==
    IF S = {} THEN <<>>
    ELSE LET m == CHOOSE x \in S : \A y \in S : y.last_modified <= x.last_modified
         IN  <<m>> \o SortByRecency(S \ {m})

MarketAreaListByRecency(db, project) ==
    SortByRecency({m \in db : m.project = project})

\* MarketAreaList.get_queryset: the list fetch of one project.
MarketAreaList(db, project) ==
    SortRows({m \in db : m.project = project})

FilterIdInAnyProject(db, project, order) ==
    {m \in db : \E i \in DOMAIN order : order[i].id = m.id}

\* MarketArea.objects.filter(project_id=project_id, id__in=order)
FilterIdIn(db, project, order) ==
    {m \in db : m.project = project
                /\ \E i \in DOMAIN order : order[i].id = m.id}

OrderMappingOneBased(order) ==
    [k \in {order[i] : i \in DOMAIN order} |->
        CHOOSE i \in DOMAIN order :
            order[i] = k /\ \A j \in DOMAIN order : order[j] = k => j <= i]

\* {str(id): index for index, id in enumerate(order)}; a later duplicate
\* key overwrites an earlier one.
OrderMapping(order) ==
    [k \in {order[i] : i \in DOMAIN order} |->
        (CHOOSE i \in DOMAIN order :
            order[i] = k /\ \A j \in DOMAIN order : order[j] = k => j <= i) - 1]

\* The loop of MarketAreaReorder.put over the fetched rows.  A row whose
\* str(id) is no key of the mapping raises KeyError and ends the loop.
RECURSIVE SaveRows(_, _, _, _)
SaveRows(db, rows, mapping, t) ==
    IF rows = <<>> THEN [db |-> db, ok |-> TRUE, t |-> t]
    ELSE LET m == Head(rows)
             key == StrUuid(m.id)
         IN  IF key \notin DOMAIN mapping
             THEN [db |-> db, ok |-> FALSE, t |-> t]
             ELSE SaveRows(MarketAreaSave(db, [m EXCEPT !.order = mapping[key]], t),
                           Tail(rows), mapping, t + 1)

AtomicNoRollback(db, result) == result.db

\* transaction.atomic(): an exception that leaves the block rolls back.
Atomic(db, result) == IF result.ok THEN result.db ELSE db

CountMismatchOff(rows, order) == FALSE

\* len(market_areas) != len(order)
CountMismatch(rows, order) == Cardinality(rows) # Len(order)

\* The workers that serve requests at the same time.
Workers == {1, 2}

Init ==
    /\ market_areas = {}
    /\ presets = {}
    /\ now = 1
    /\ last = NoRequest
    /\ ledger = {}
    /\ map_configurations = {}
    /\ projects = ProjectIds
    /\ label_positions = {}
    /\ tcg_themes = {}
    /\ inflight = [w \in Workers |-> NoRequest]
    /\ before = [market_areas |-> {}, presets |-> {},
                 ledger |-> {}, map_configurations |-> {},
                 projects |-> ProjectIds, label_positions |-> {},
                 tcg_themes |-> {}]

\* A handler runs when the response of the request before it has left.
Arrive == /\ last = NoRequest
          /\ before' = Tables

\* The style_settings a body may carry now.
SendableStyles == IF now <= MaxStyleTime THEN BodyStyles ELSE {NotSent}

\* POST projects/<p>/market-areas/.  create() wraps super().create() in
\* `except Exception`: the Project.DoesNotExist of perform_create and the
\* IntegrityError of a name in use are answered 400.
MarketAreaList_create ==
    /\ Arrive
    /\ now <= MaxTime
    /\ \E p \in ProjectIds, name \in MaNames, body_order \in BodyOrders,
          style \in SendableStyles :
       \E fresh \in FreshIds(MaIds, {m.id : m \in market_areas}) :
        LET inst == WriteStyle(NewMarketArea(fresh, p, name,
                                             ValidatedOrder(body_order)), style)
            req  == [NoRequest EXCEPT !.op = "create", !.project = p,
                        !.id = fresh, !.name = name, !.body_order = body_order,
                        !.style = style]
        IN  IF p \notin projects \/ NameTaken(market_areas, p, name, fresh)
            THEN /\ last' = [req EXCEPT !.status = 400]
                 /\ UNCHANGED <<market_areas, now>>
            ELSE /\ market_areas' = MarketAreaSave(market_areas, inst, now)
                 /\ now' = now + 1
                 /\ last' = [req EXCEPT !.status = 201]
    /\ UNCHANGED <<projects, label_positions, tcg_themes, presets, ledger,
                   map_configurations, inflight>>

\* PUT/PATCH projects/<p>/market-areas/<id>/.  update() wraps super().update()
\* in `except Exception`, which also catches the Http404 of get_object().
MarketAreaDetail_update ==
    /\ Arrive
    /\ now <= MaxTime
    /\ \E p \in ProjectIds, id \in MaIds, name \in MaNames, body_order \in BodyOrders,
          style \in SendableStyles :
       LET req == [NoRequest EXCEPT !.op = "update", !.project = p,
                      !.id = id, !.name = name, !.body_order = body_order,
                      !.style = style]
           found == {m \in market_areas : m.project = p /\ m.id = id}
       IN  IF found = {}
           THEN /\ last' = [req EXCEPT !.status = 400]
                /\ UNCHANGED <<market_areas, now>>
           ELSE LET m == CHOOSE x \in found : TRUE
                    o == ValidatedOrder(body_order)
                    inst == WriteStyle([m EXCEPT !.name = name,
                                      !.order = IF o = Absent THEN m.order ELSE o],
                                       style)
                IN  IF NameTaken(market_areas, p, name, id)
                    THEN /\ last' = [req EXCEPT !.status = 400]
                         /\ UNCHANGED <<market_areas, now>>
                    ELSE /\ market_areas' = MarketAreaSave(market_areas, inst, now)
                         /\ now' = now + 1
                         /\ last' = [req EXCEPT !.status = 200]
    /\ UNCHANGED <<projects, label_positions, tcg_themes, presets, ledger,
                   map_configurations, inflight>>

\* DELETE projects/<p>/market-areas/<id>/; a missing row is answered 400 as
\* in update().
MarketAreaDetail_destroy ==
    /\ Arrive
    /\ \E p \in ProjectIds, id \in MaIds :
       LET req == [NoRequest EXCEPT !.op = "destroy", !.project = p, !.id = id]
           found == {m \in market_areas : m.project = p /\ m.id = id}
       IN  IF found = {}
           THEN /\ last' = [req EXCEPT !.status = 400]
                /\ UNCHANGED market_areas
           ELSE /\ market_areas' = market_areas \ found
                /\ last' = [req EXCEPT !.status = 204]
    /\ UNCHANGED <<projects, label_positions, tcg_themes, presets, ledger,
                   map_configurations, inflight, now>>

\* The order lists short enough for the clock to stamp every row they name.
SendableOrderLists == {s \in OrderLists : now + Len(s) <= MaxTime + 1}

\* PUT projects/<p>/market-areas/reorder/.  The response carries the market
\* areas of the project, fetched again with order_by('order').
MarketAreaReorder_put ==
    /\ Arrive
    /\ \E p \in ProjectIds, order \in SendableOrderLists :
       LET req  == [NoRequest EXCEPT !.op = "reorder", !.project = p, !.order = order]
           rows == FilterIdIn(market_areas, p, order)
       IN  IF order = <<>> \/ CountMismatch(rows, order)
           THEN /\ last' = [req EXCEPT !.status = 400]
                /\ UNCHANGED <<market_areas, now>>
           ELSE LET res == SaveRows(market_areas, SortRows(rows), OrderMapping(order), now)
                IN  /\ market_areas' = Atomic(market_areas, res)
                    /\ now' = IF res.ok THEN res.t ELSE now
                    /\ IF res.ok
                       THEN \E updated_market_areas \in
                                OrderByOrder({m \in res.db : m.project = p}) :
                              last' = [req EXCEPT !.status = 200,
                                          !.body = IdsOf(updated_market_areas)]
                       ELSE last' = [req EXCEPT !.status = 500]
    /\ UNCHANGED <<projects, label_positions, tcg_themes, presets, ledger,
                   map_configurations, inflight>>

\* The response leaves the server; the next request is handled after it.
ResponseSent ==
    /\ last # NoRequest
    /\ last' = NoRequest
    /\ before' = Tables
    /\ UNCHANGED <<projects, label_positions, tcg_themes, market_areas,
                   presets, ledger, map_configurations, inflight, now>>

Next ==
    \/ MarketAreaList_create
    \/ MarketAreaDetail_update
    \/ MarketAreaDetail_destroy
    \/ MarketAreaReorder_put
    \/ ResponseSent

Spec == Init /\ [][Next]_vars

\* ------------------------------------------------- StylePreset, VariablePreset
\* The two preset models, serializers' uniqueness rules and view sets differ
\* only where `kind` is tested below.

RECURSIVE SeqOfRows(_)
\* The rows of a queryset in the order of Meta.ordering = ['-last_modified'].
SeqOfRows(S) ==
    IF S = {} THEN <<>>
    ELSE LET r == CHOOSE x \in S : \A y \in S :
                    \/ y.last_modified < x.last_modified
                    \/ y.last_modified = x.last_modified /\ y.id <= x.id
         IN  <<r>> \o SeqOfRows(S \ {r})

Range(f) == {f[i] : i \in DOMAIN f}

PresetQuerysetAsUnion(db, kind, ctx) ==
    IF ctx # NULL
    THEN SeqOfRows({r \in db : r.kind = kind /\ r.project = ctx})
            \o SeqOfRows({r \in db : r.kind = kind /\ r.is_global})
    ELSE SeqOfRows({r \in db : r.kind = kind /\ r.is_global})

\* StylePresetViewSet.get_queryset and VariablePresetViewSet.get_queryset:
\* filter(Q(project_id=project_id) | Q(is_global=True)) when ?project= is
\* given, filter(is_global=True) otherwise.
PresetQueryset(db, kind, ctx) ==
    IF ctx # NULL
    THEN SeqOfRows({r \in db : r.kind = kind /\ (r.project = ctx \/ r.is_global)})
    ELSE SeqOfRows({r \in db : r.kind = kind /\ r.is_global})

PresetGetObjectUnscoped(db, kind, ctx, id) ==
    {r \in db : r.kind = kind /\ r.id = id}

\* get_object(): the row of the queryset with pk = id, or 404.
PresetGetObject(db, kind, ctx, id) ==
    {r \in Range(PresetQueryset(db, kind, ctx)) : r.id = id}

\* UniqueTogetherValidator of the serializer: ('project', 'name') for a style
\* preset, skipped when the project is None; ('name', 'is_global') for a
\* variable preset, on the value the body sends.
PresetValidatorHit(db, kind, self, name, project, body_global) ==
    \E r \in db :
        /\ r.kind = kind /\ r.id # self /\ r.name = name
        /\ IF kind = "style"
           THEN project # NULL /\ r.project = project
           ELSE r.is_global = body_global

PresetIntegrityErrorOff(db, row) == FALSE

\* unique_together = [['project', 'name'], ['name', 'is_global']] in the
\* database; NULL projects are distinct from each other.
PresetIntegrityError(db, row) ==
    \E r \in db :
        /\ r.kind = row.kind /\ r.id # row.id /\ r.name = row.name
        /\ \/ r.is_global = row.is_global
           \/ (row.project # NULL /\ r.project = row.project)

PresetWriteTakesProject(row, name, project, body_global) ==
    [row EXCEPT !.name = name, !.project = project,
                !.is_global = IF row.kind = "style" THEN @ ELSE TRUE]

PresetWriteTakesGlobal(row, name, project, body_global) ==
    IF row.kind = "style"
    THEN [row EXCEPT !.name = name, !.project = project]
    ELSE [row EXCEPT !.name = name, !.is_global = body_global]

\* The fields the serializer writes.  StylePresetSerializer has 'project'
\* and no 'is_global'; VariablePresetSerializer has no 'project' and its
\* validate() sets is_global = True.
PresetWrite(row, name, project, body_global) ==
    IF row.kind = "style"
    THEN [row EXCEPT !.name = name, !.project = project]
    ELSE [row EXCEPT !.name = name, !.is_global = TRUE]

\* Model defaults: project = None, is_global = False.
NewPreset(fresh, kind) ==
    [id |-> fresh, kind |-> kind, name |-> NULL, project |-> NULL,
     is_global |-> FALSE, last_modified |-> 0]

\* Model.save(): auto_now stamps last_modified.
PresetSave(row, t) == [row EXCEPT !.last_modified = t]

MakeGlobalKeepsProject(row, t) ==
    IF ~row.is_global THEN PresetSave([row EXCEPT !.is_global = TRUE], t) ELSE row

MakeGlobalAlwaysSaves(row, t) ==
    PresetSave([row EXCEPT !.is_global = TRUE,
                           !.project = IF row.is_global THEN row.project ELSE NULL], t)

\* The body of make_global:
\* if not preset.is_global: is_global = True; project = None; save()
MakeGlobal(row, t) ==
    IF ~row.is_global
    THEN PresetSave([row EXCEPT !.is_global = TRUE, !.project = NULL], t)
    ELSE row

\* make_global on the tables db at time t: the tables it leaves, the status
\* it answers and the time after it.
make_global(db, kind, ctx, id, t) ==
    LET found == PresetGetObject(db, kind, ctx, id)
    IN  IF found = {}
        THEN [presets |-> db, status |-> 404, now |-> t]
        ELSE LET old == CHOOSE r \in found : TRUE
                 row == MakeGlobal(old, t)
             IN  IF row # old /\ PresetIntegrityError(db, row)
                 THEN [presets |-> db, status |-> 500, now |-> t]
                 ELSE [presets |-> (db \ {old}) \cup {row}, status |-> 200,
                       now |-> IF row # old THEN t + 1 ELSE t]

PresetRequest(op, kind, ctx, id) ==
    [NoRequest EXCEPT !.op = op, !.kind = kind, !.ctx = ctx, !.id = id]

\* GET style-presets/?project=<ctx>, GET variable-presets/?project=<ctx>
PresetViewSet_list ==
    /\ Arrive
    /\ \E kind \in PresetKinds, ctx \in ProjectIds \cup {NULL} :
        last' = [PresetRequest("list", kind, ctx, NoId) EXCEPT
                    !.status = 200,
                    !.body = IdsOf(PresetQueryset(presets, kind, ctx))]
    /\ UNCHANGED <<projects, label_positions, tcg_themes, market_areas,
                   presets, ledger, map_configurations, inflight, now>>

\* POST style-presets/, POST variable-presets/
PresetViewSet_create ==
    /\ Arrive
    /\ now <= MaxPresetTime
    /\ \E kind \in PresetKinds, name \in PresetNames,
          project \in ProjectIds \cup {NULL}, body_global \in BOOLEAN :
       \E fresh \in FreshIds(PresetIds, {r.id : r \in presets}) :
        LET req == [PresetRequest("create", kind, NULL, fresh) EXCEPT
                        !.name = name, !.project = project, !.body_global = body_global]
            row == PresetSave(PresetWrite(NewPreset(fresh, kind),
                                          name, project, body_global), now)
        IN  IF PresetValidatorHit(presets, kind, fresh, name, project, body_global)
            THEN /\ last' = [req EXCEPT !.status = 400]
                 /\ UNCHANGED <<presets, now>>
            ELSE IF PresetIntegrityError(presets, row)
            THEN /\ last' = [req EXCEPT !.status = 500]
                 /\ UNCHANGED <<presets, now>>
            ELSE /\ presets' = presets \cup {row}
                 /\ now' = now + 1
                 /\ last' = [req EXCEPT !.status = 201]
    /\ UNCHANGED <<projects, label_positions, tcg_themes, market_areas, ledger,
                   map_configurations, inflight>>

\* PUT/PATCH style-presets/<id>/?project=<ctx>, same for variable-presets
PresetViewSet_update ==
    /\ Arrive
    /\ now <= MaxPresetTime
    /\ \E kind \in PresetKinds, ctx \in ProjectIds \cup {NULL}, id \in PresetIds,
          name \in PresetNames, project \in ProjectIds \cup {NULL},
          body_global \in BOOLEAN :
        LET req == [PresetRequest("update", kind, ctx, id) EXCEPT
                        !.name = name, !.project = project, !.body_global = body_global]
            found == PresetGetObject(presets, kind, ctx, id)
        IN  IF found = {}
            THEN /\ last' = [req EXCEPT !.status = 404]
                 /\ UNCHANGED <<presets, now>>
            ELSE LET old == CHOOSE r \in found : TRUE
                     row == PresetSave(PresetWrite(old, name, project, body_global), now)
                 IN  IF PresetValidatorHit(presets, kind, id, name, project, body_global)
                     THEN /\ last' = [req EXCEPT !.status = 400]
                          /\ UNCHANGED <<presets, now>>
                     ELSE IF PresetIntegrityError(presets, row)
                     THEN /\ last' = [req EXCEPT !.status = 500]
                          /\ UNCHANGED <<presets, now>>
                     ELSE /\ presets' = (presets \ {old}) \cup {row}
                          /\ now' = now + 1
                          /\ last' = [req EXCEPT !.status = 200]
    /\ UNCHANGED <<projects, label_positions, tcg_themes, market_areas, ledger,
                   map_configurations, inflight>>

\* POST style-presets/<id>/make-global/?project=<ctx>, same for variable-presets
PresetViewSet_make_global ==
    /\ Arrive
    /\ now <= MaxPresetTime
    /\ \E kind \in PresetKinds, ctx \in ProjectIds \cup {NULL}, id \in PresetIds :
        LET res == make_global(presets, kind, ctx, id, now)
        IN  /\ presets' = res.presets
            /\ now' = res.now
            /\ last' = [PresetRequest("make_global", kind, ctx, id) EXCEPT
                            !.status = res.status]
    /\ UNCHANGED <<projects, label_positions, tcg_themes, market_areas, ledger,
                   map_configurations, inflight>>

\* DELETE style-presets/<id>/?project=<ctx>, same for variable-presets.
\* destroy() wraps super().destroy() in `except Exception`, which also
\* catches the Http404 of get_object(): a missing preset is answered 400.
PresetViewSet_destroy ==
    /\ Arrive
    /\ \E kind \in PresetKinds, ctx \in ProjectIds \cup {NULL}, id \in PresetIds :
        LET req == PresetRequest("destroy", kind, ctx, id)
            found == PresetGetObject(presets, kind, ctx, id)
        IN  IF found = {}
            THEN /\ last' = [req EXCEPT !.status = 400]
                 /\ UNCHANGED presets
            ELSE /\ presets' = presets \ found
                 /\ last' = [req EXCEPT !.status = 204]
    /\ UNCHANGED <<projects, label_positions, tcg_themes, market_areas, ledger,
                   map_configurations, inflight, now>>

NextPreset ==
    \/ PresetViewSet_list
    \/ PresetViewSet_create
    \/ PresetViewSet_update
    \/ PresetViewSet_make_global
    \/ PresetViewSet_destroy
    \/ ResponseSent

SpecPreset == Init /\ [][NextPreset]_vars

\* -------------------------------------------------------- EnrichmentUsage
\* In this part the clock counts ticks of half a day.
TicksPerDay == 2
Day(t) == t \div TicksPerDay
\* timedelta(days=30)
ThirtyDays == 30 * TicksPerDay
\* The stretches of time that pass between two requests.
Pauses == {ThirtyDays - 1}

\* auth_user rows: the pk and the rank of the username in the collation.
Users == {[id |-> 1, username |-> 2], [id |-> 2, username |-> 1]}
UserIds == {u.id : u \in Users}
\* user_id values of a record_usage body: missing, known users, an unknown one.
BodyUserIds == {NoId} \cup UserIds \cup {3}
LedgerIds == 1..3
\* cost values of a record_usage body; NULL: the key is missing.
BodyCosts == {"-1.00", "3.00", "3.005", "abc", NULL}
\* Days a start_date or end_date parameter names.
BodyDays == {Absent, 0, 1}

\* A Decimal: unscaled * 10^(-scale).  InvalidOperation stands for the
\* exception Decimal() raises on text that is no number.
InvalidOperation == [unscaled |-> 0, scale |-> Absent]

\* Decimal(request.data.get('cost', '0.01'))
Decimal(text) ==
    CASE text = NULL    -> [unscaled |-> 1, scale |-> 2]
      [] text = "-1.00" -> [unscaled |-> -100, scale |-> 2]
      [] text = "3.00"  -> [unscaled |-> 300, scale |-> 2]
      [] text = "3.005" -> [unscaled |-> 3005, scale |-> 3]
      [] OTHER          -> InvalidOperation

RECURSIVE Pow10(_)
Pow10(n) == IF n = 0 THEN 1 ELSE 10 * Pow10(n - 1)

\* The values, in hundredths, that DecimalField(decimal_places=2) stores for
\* d.  A value with more places is rounded, a tie either to even
\* (Decimal.quantize in the field's get_db_prep_save) or away from zero (the
\* numeric column of the database), as the database backend has it.
Quantize(d) ==
    IF d.scale <= 2 THEN {d.unscaled * Pow10(2 - d.scale)}
    ELSE LET div  == Pow10(d.scale - 2)
             sign == IF d.unscaled < 0 THEN -1 ELSE 1
             a    == sign * d.unscaled
             q    == a \div div
             r    == a % div
             even == IF 2 * r > div \/ (2 * r = div /\ q % 2 = 1) THEN q + 1 ELSE q
             away == IF 2 * r >= div THEN q + 1 ELSE q
         IN  {sign * even, sign * away}

\* The foreign keys of a ledger row: user and project must exist.
LedgerIntegrityError(user, project) ==
    user \notin UserIds \/ project \notin projects

LedgerMergeSameDay(db, row) ==
    LET same == {r \in db : /\ r.user = row.user /\ r.project = row.project
                            /\ Day(r.timestamp) = Day(row.timestamp)}
    IN  IF same = {} THEN db \cup {row}
        ELSE LET r == CHOOSE x \in same : TRUE
             IN  (db \ {r}) \cup {[r EXCEPT !.cost = r.cost + row.cost]}

\* EnrichmentUsage.objects.create(user_id=..., project_id=..., cost=cost)
LedgerCreate(db, row) == db \cup {row}

\* POST enrichment/record_usage/
EnrichmentUsageViewSet_record_usage ==
    /\ Arrive
    /\ now <= MaxUsageTime
    /\ \E user \in BodyUserIds, project \in ProjectIds \cup {NULL}, cost \in BodyCosts :
       \E fresh \in FreshIds(LedgerIds, {r.id : r \in ledger}) :
        LET req == [NoRequest EXCEPT !.op = "record_usage", !.user = user,
                        !.project = project, !.cost = cost, !.id = fresh]
            d   == Decimal(cost)
        IN  IF \/ d = InvalidOperation
               \/ user = NoId \/ project = NULL
               \/ LedgerIntegrityError(user, project)
            THEN /\ last' = [req EXCEPT !.status = 400]
                 /\ UNCHANGED <<ledger, now>>
            ELSE \E stored \in Quantize(d) :
                    /\ ledger' = LedgerCreate(ledger,
                                    [id |-> fresh, user |-> user, project |-> project,
                                     cost |-> stored, timestamp |-> now])
                    /\ now' = now + 1
                    /\ last' = [req EXCEPT !.status = 201]
    /\ UNCHANGED <<projects, label_positions, tcg_themes, market_areas,
                   presets, map_configurations, inflight>>

RECURSIVE SumCost(_)
\* aggregate(total=Sum('cost'))['total'] or 0
SumCost(rows) ==
    IF rows = {} THEN 0
    ELSE LET r == CHOOSE x \in rows : TRUE
         IN  r.cost + SumCost(rows \ {r})

UserUsageSinceStrict(db, user, since) ==
    {r \in db : r.user = user /\ r.timestamp > since}

\* EnrichmentUsage.objects.filter(user=user, timestamp__gte=thirty_days_ago)
UserUsageSince(db, user, since) ==
    {r \in db : r.user = user /\ r.timestamp >= since}

\* GET admin/users/usage_stats_all/: one entry per user; float(total_cost)
\* of a sum of hundredths is written out as that sum.
AdminUserViewSet_usage_stats_all ==
    /\ Arrive
    /\ LET thirty_days_ago == now - ThirtyDays
           usage_stats == [u \in UserIds |->
                LET user_usage == UserUsageSince(ledger, u, thirty_days_ago)
                IN  [total_enrichments |-> Cardinality(user_usage),
                     total_cost |-> SumCost(user_usage)]]
       IN  last' = [NoRequest EXCEPT !.op = "usage_stats_all", !.status = 200,
                        !.stats = usage_stats]
    /\ UNCHANGED <<projects, label_positions, tcg_themes, market_areas,
                   presets, ledger, map_configurations, inflight, now>>

\* datetime.strptime(start_date_str, '%Y-%m-%d').replace(hour=0, minute=0, ...)
StartOfDay(day) == day * TicksPerDay

EndOfDayMidnight(day) == day * TicksPerDay

\* datetime.strptime(end_date_str, '%Y-%m-%d').replace(hour=23, minute=59,
\* second=59, microsecond=999999): the last instant of the day.
EndOfDay(day) == day * TicksPerDay + (TicksPerDay - 1)

UsernameOf(user) == (CHOOSE u \in Users : u.id = user).username

\* order_by('user__username', '-timestamp')
ExportPrecedes(a, b) ==
    \/ UsernameOf(a.user) < UsernameOf(b.user)
    \/ UsernameOf(a.user) = UsernameOf(b.user) /\ a.timestamp > b.timestamp

RECURSIVE ExportOrder(_)
ExportOrder(S) ==
    IF S = {} THEN <<>>
    ELSE LET r == CHOOSE x \in S : \A y \in S \ {x} : ~ExportPrecedes(y, x)
         IN  <<r>> \o ExportOrder(S \ {r})

\* The query of export_usage_stats with its filters.
ExportQuery(db, start, end, user_ids) ==
    ExportOrder({r \in db :
        /\ start # Absent => r.timestamp >= StartOfDay(start)
        /\ end # Absent => r.timestamp <= EndOfDay(end)
        /\ user_ids # {} => r.user \in user_ids})

\* GET admin/users/export_usage_stats/?start_date=&end_date=&user_id=...:
\* one CSV row per record of the query.
AdminUserViewSet_export_usage_stats ==
    /\ Arrive
    /\ \E start \in BodyDays, end \in BodyDays, user_ids \in SUBSET UserIds :
        last' = [NoRequest EXCEPT !.op = "export_usage_stats", !.status = 200,
                    !.start = start, !.end = end, !.users = user_ids,
                    !.body = IdsOf(ExportQuery(ledger, start, end, user_ids))]
    /\ UNCHANGED <<projects, label_positions, tcg_themes, market_areas,
                   presets, ledger, map_configurations, inflight, now>>

\* Time passes between two requests.
TimePasses ==
    /\ last = NoRequest
    /\ \E d \in Pauses : now + d <= MaxUsageTime /\ now' = now + d
    /\ UNCHANGED <<projects, label_positions, tcg_themes, market_areas,
                   presets, ledger, map_configurations, inflight, last, before>>

NextUsage ==
    \/ EnrichmentUsageViewSet_record_usage
    \/ AdminUserViewSet_usage_stats_all
    \/ AdminUserViewSet_export_usage_stats
    \/ TimePasses
    \/ ResponseSent

SpecUsage == Init /\ [][NextUsage]_vars

\* ------------------------------------------- concurrent market-area creates
\* super().create up to serializer.is_valid(): MarketAreaSerializer has no
\* 'project' field and so no uniqueness validator; nothing is read or written.
MarketAreaList_create_is_valid ==
    \E w \in Workers, p \in ProjectIds, name \in MaNames :
        /\ inflight[w] = NoRequest
        /\ inflight' = [inflight EXCEPT ![w] =
                [NoRequest EXCEPT !.op = "create", !.project = p, !.name = name,
                    !.pc = "validated",
                    !.taken = NameTaken(market_areas, p, name, NoId)]]
        /\ UNCHANGED <<projects, label_positions, tcg_themes, market_areas,
                       presets, ledger, map_configurations, now, last, before>>

\* perform_create: serializer.save(project=project) inserts the row; an
\* IntegrityError (the database refuses a second row with the (project,
\* name) of another one) is caught by `except Exception` and answered 400.
MarketAreaList_create_save ==
    /\ now <= MaxTime
    /\ \E w \in Workers :
       \E fresh \in FreshIds(MaIds, {m.id : m \in market_areas}) :
        LET req  == inflight[w]
            inst == NewMarketArea(fresh, req.project, req.name, Absent)
        IN  /\ req.pc = "validated"
            /\ IF \/ req.project \notin projects
                  \/ NameTaken(market_areas, req.project, req.name, fresh)
               THEN /\ inflight' = [inflight EXCEPT ![w] =
                            [req EXCEPT !.pc = "done", !.status = 400]]
                    /\ UNCHANGED <<market_areas, now>>
               ELSE /\ market_areas' = MarketAreaSave(market_areas, inst, now)
                    /\ now' = now + 1
                    /\ inflight' = [inflight EXCEPT ![w] =
                            [req EXCEPT !.pc = "done", !.status = 201, !.id = fresh]]
    /\ UNCHANGED <<projects, label_positions, tcg_themes, presets, ledger,
                   map_configurations, last, before>>

\* The response leaves the worker.
MarketAreaList_create_respond ==
    \E w \in Workers :
        /\ inflight[w].op = "create"
        /\ inflight[w].pc = "done"
        /\ inflight' = [inflight EXCEPT ![w] = NoRequest]
        /\ UNCHANGED <<projects, label_positions, tcg_themes, market_areas,
                       presets, ledger, map_configurations, now, last, before>>

\* The order lists of the reorder requests that run at the same time: the
\* permutations of all the ids, in the spelling of str().
ConcurrentOrderLists ==
    {s \in OrderLists :
        /\ {s[i] : i \in DOMAIN s} = {StrUuid(id) : id \in MaIds}
        /\ \A i, j \in DOMAIN s : s[i] = s[j] => i = j}

\* A row is locked for worker w while the open transaction of another
\* worker has written it.
RowLocked(id, w) ==
    \E v \in Workers \ {w} : \E r \in inflight[v].written : r.id = id

\* The rows of db with the rows of `written` in the place of their old
\* versions.
Overwrite(db, written) ==
    {m \in db : ~\E r \in written : r.id = m.id} \cup written

AutocommitWrite(db, written, row) ==
    [db |-> Overwrite(db, {row}), written |-> written]

\* market_area.save() inside `with transaction.atomic():` the UPDATE stays
\* with the transaction, unseen by the others, until the block is left.
TransactionWrite(db, written, row) ==
    [db |-> db, written |-> Overwrite(written, {row})]

\* MarketAreaReorder.put from the start of the transaction to the count
\* check: the query reads the committed rows.  seen keeps the orders read.
MarketAreaReorder_put_fetch ==
    \E w \in Workers, p \in ProjectIds, order \in ConcurrentOrderLists :
        LET req  == [NoRequest EXCEPT !.op = "reorder", !.project = p,
                        !.order = order]
            rows == FilterIdIn(market_areas, p, order)
        IN  /\ inflight[w] = NoRequest
            /\ inflight' = [inflight EXCEPT ![w] =
                    IF CountMismatch(rows, order)
                    THEN [req EXCEPT !.pc = "done", !.status = 400]
                    ELSE [req EXCEPT !.pc = "saving", !.rows = SortRows(rows),
                              !.seen = {<<m.id, m.order>> : m \in rows}]]
            /\ UNCHANGED <<market_areas, presets, ledger, map_configurations,
                           projects, label_positions, tcg_themes, now, last,
                           before>>

\* One pass of the loop: market_area.order = order_mapping[str(id)];
\* market_area.save().  The UPDATE waits while the row is locked.  A
\* KeyError leaves the block and rolls the transaction back (500).
MarketAreaReorder_put_save ==
    /\ now <= MaxRaceTime
    /\ \E w \in Workers :
        LET req == inflight[w]
            m   == Head(req.rows)
            key == StrUuid(m.id)
            mapping == OrderMapping(req.order)
        IN  /\ req.op = "reorder" /\ req.pc = "saving" /\ req.rows # <<>>
            /\ IF key \notin DOMAIN mapping
               THEN /\ inflight' = [inflight EXCEPT ![w] =
                            [req EXCEPT !.pc = "done", !.status = 500,
                                        !.rows = <<>>, !.written = {}]]
                    /\ UNCHANGED <<market_areas, now>>
               ELSE /\ ~RowLocked(m.id, w)
                    /\ LET row == [m EXCEPT !.order = mapping[key],
                                            !.last_modified = now]
                           res == TransactionWrite(market_areas, req.written, row)
                       IN  /\ market_areas' = res.db
                           /\ inflight' = [inflight EXCEPT ![w] =
                                    [req EXCEPT !.rows = Tail(req.rows),
                                                !.written = res.written]]
                    /\ now' = now + 1
    /\ UNCHANGED <<presets, ledger, map_configurations, projects,
                   label_positions, tcg_themes, last, before>>

\* The UPDATE of a locked row may also fail (database is locked, a
\* serialization failure): the exception rolls the transaction back (500).
MarketAreaReorder_put_conflict ==
    \E w \in Workers :
        LET req == inflight[w]
        IN  /\ req.op = "reorder" /\ req.pc = "saving" /\ req.rows # <<>>
            /\ RowLocked(Head(req.rows).id, w)
            /\ inflight' = [inflight EXCEPT ![w] =
                    [req EXCEPT !.pc = "done", !.status = 500,
                                !.rows = <<>>, !.written = {}]]
            /\ UNCHANGED <<market_areas, presets, ledger, map_configurations,
                           projects, label_positions, tcg_themes, now, last,
                           before>>

\* The loop is over and the block is left: the transaction commits what it
\* has written.  commit keeps the time of the commit.
MarketAreaReorder_put_commit ==
    \E w \in Workers :
        LET req == inflight[w]
        IN  /\ req.op = "reorder" /\ req.pc = "saving" /\ req.rows = <<>>
            /\ market_areas' = Overwrite(market_areas, req.written)
            /\ inflight' = [inflight EXCEPT ![w] =
                    [req EXCEPT !.pc = "done", !.status = 200,
                                !.written = {}, !.commit = now]]
            /\ UNCHANGED <<presets, ledger, map_configurations, projects,
                           label_positions, tcg_themes, now, last, before>>

\* The response of a reorder leaves the worker.
MarketAreaReorder_put_respond ==
    \E w \in Workers :
        /\ inflight[w].op = "reorder"
        /\ inflight[w].pc = "done"
        /\ inflight' = [inflight EXCEPT ![w] = NoRequest]
        /\ UNCHANGED <<market_areas, presets, ledger, map_configurations,
                       projects, label_positions, tcg_themes, now, last,
                       before>>

NextConcurrent ==
    \/ MarketAreaList_create_is_valid
    \/ MarketAreaList_create_save
    \/ MarketAreaList_create_respond

SpecConcurrent == Init /\ [][NextConcurrent]_vars

\* The tables after POST projects/p1/market-areas/ with each of the names in
\* turn, as MarketAreaList_create stores the rows.
RECURSIVE CreatedInTurn(_, _, _)
CreatedInTurn(db, names, t) ==
    IF names = {} THEN db
    ELSE LET name  == CHOOSE n \in names : TRUE
             fresh == CHOOSE i \in FreshIds(MaIds, {m.id : m \in db}) : TRUE
         IN  CreatedInTurn(
                MarketAreaSave(db, NewMarketArea(fresh, "p1", name, Absent), t),
                names \ {name}, t + 1)

\* Reorder requests run at the same time on a project with market areas.
InitRace ==
    /\ market_areas = CreatedInTurn({}, MaNames, 1)
    /\ now = Cardinality(MaNames) + 1
    /\ presets = {}
    /\ last = NoRequest
    /\ ledger = {}
    /\ map_configurations = {}
    /\ projects = ProjectIds
    /\ label_positions = {}
    /\ tcg_themes = {}
    /\ inflight = [w \in Workers |-> NoRequest]
    /\ before = [market_areas |-> {}, presets |-> {},
                 ledger |-> {}, map_configurations |-> {},
                 projects |-> ProjectIds, label_positions |-> {},
                 tcg_themes |-> {}]

NextRace ==
    \/ MarketAreaReorder_put_fetch
    \/ MarketAreaReorder_put_save
    \/ MarketAreaReorder_put_conflict
    \/ MarketAreaReorder_put_commit
    \/ MarketAreaReorder_put_respond

SpecRace == InitRace /\ [][NextRace]_vars

\* ------------------------------------------------------- MapConfiguration
MapConfigIds == 1..3
TabNames == {"Map 1", "Map 2"}
LayerConfigs == {"cfgA", "cfgB"}
\* project values of a body: missing, a project, the id of no project
BodyProjects == {NULL} \cup ProjectIds \cup {"p9"}

TabNameTakenOff(db, project, tab_name, self) == FALSE

\* unique_together = ['project', 'tab_name']: the UniqueTogetherValidator of
\* the serializer and the constraint of the table.
TabNameTaken(db, project, tab_name, self) ==
    \E c \in db : c.project = project /\ c.tab_name = tab_name /\ c.id # self

\* MapConfiguration.objects.create(project=project, **validated_data);
\* order defaults to 0, auto_now stamps last_modified.
NewMapConfiguration(fresh, project, tab_name, data, order, t) ==
    [id |-> fresh, project |-> project, tab_name |-> tab_name, data |-> data,
     order |-> IF order = Absent THEN 0 ELSE order, last_modified |-> t]

\* POST map-configurations/
MapConfigurationViewSet_create ==
    /\ Arrive
    /\ now <= MaxMapTime
    /\ \E project \in BodyProjects, tab_name \in TabNames, data \in LayerConfigs,
          body_order \in BodyOrders :
       \E fresh \in FreshIds(MapConfigIds, {c.id : c \in map_configurations}) :
        LET req == [NoRequest EXCEPT !.op = "create_map", !.project = project,
                        !.name = tab_name, !.data = data,
                        !.body_order = body_order, !.id = fresh]
        IN  IF project = NULL
            THEN /\ last' = [req EXCEPT !.status = 400]
                 /\ UNCHANGED <<map_configurations, now>>
            ELSE IF project \notin projects
            THEN /\ last' = [req EXCEPT !.status = 404]
                 /\ UNCHANGED <<map_configurations, now>>
            ELSE IF TabNameTaken(map_configurations, project, tab_name, fresh)
            THEN /\ last' = [req EXCEPT !.status = 400]
                 /\ UNCHANGED <<map_configurations, now>>
            ELSE /\ map_configurations' = map_configurations \cup
                        {NewMapConfiguration(fresh, project, tab_name, data,
                                             body_order, now)}
                 /\ now' = now + 1
                 /\ last' = [req EXCEPT !.status = 201]
    /\ UNCHANGED <<projects, label_positions, tcg_themes, market_areas,
                   presets, ledger, inflight>>

\* PUT/PATCH map-configurations/<id>/.  A body with 'project' makes
\* ModelSerializer.update assign a UUID to the foreign key, which raises
\* (500); without it tab_name and layer_configuration are written.
MapConfigurationViewSet_update ==
    /\ Arrive
    /\ now <= MaxMapTime
    /\ \E id \in MapConfigIds, project \in {NULL} \cup ProjectIds,
          tab_name \in TabNames, data \in LayerConfigs :
        LET req == [NoRequest EXCEPT !.op = "update_map", !.id = id,
                        !.project = project, !.name = tab_name, !.data = data]
            found == {c \in map_configurations : c.id = id}
        IN  IF found = {}
            THEN /\ last' = [req EXCEPT !.status = 404]
                 /\ UNCHANGED <<map_configurations, now>>
            ELSE LET old == CHOOSE c \in found : TRUE
                     p   == IF project = NULL THEN old.project ELSE project
                 IN  IF TabNameTaken(map_configurations, p, tab_name, id)
                     THEN /\ last' = [req EXCEPT !.status = 400]
                          /\ UNCHANGED <<map_configurations, now>>
                     ELSE IF project # NULL
                     THEN /\ last' = [req EXCEPT !.status = 500]
                          /\ UNCHANGED <<map_configurations, now>>
                     ELSE /\ map_configurations' = (map_configurations \ {old}) \cup
                                {[old EXCEPT !.tab_name = tab_name, !.data = data,
                                             !.last_modified = now]}
                          /\ now' = now + 1
                          /\ last' = [req EXCEPT !.status = 200]
    /\ UNCHANGED <<projects, label_positions, tcg_themes, market_areas,
                   presets, ledger, inflight>>

\* DELETE map-configurations/<id>/.  The handler names Http404, which the
\* module does not import: a missing row ends in a NameError (500).
MapConfigurationViewSet_destroy ==
    /\ Arrive
    /\ \E id \in MapConfigIds :
        LET req == [NoRequest EXCEPT !.op = "destroy_map", !.id = id]
            found == {c \in map_configurations : c.id = id}
        IN  IF found = {}
            THEN /\ last' = [req EXCEPT !.status = 500]
                 /\ UNCHANGED map_configurations
            ELSE /\ map_configurations' = map_configurations \ found
                 /\ last' = [req EXCEPT !.status = 204]
    /\ UNCHANGED <<projects, label_positions, tcg_themes, market_areas,
                   presets, ledger, inflight, now>>

\* GET map-configurations/?project=<p>: get_queryset filters by the project
\* and orders by 'order'; without the parameter it returns none().
MapConfigurationViewSet_list ==
    /\ Arrive
    /\ \E project \in {NULL} \cup ProjectIds :
       \E queryset \in OrderByOrder({c \in map_configurations :
                                        project # NULL /\ c.project = project}) :
        last' = [NoRequest EXCEPT !.op = "list_map", !.project = project,
                    !.status = 200, !.body = IdsOf(queryset)]
    /\ UNCHANGED <<projects, label_positions, tcg_themes, market_areas,
                   presets, ledger, map_configurations, inflight, now>>

NextMapConfig ==
    \/ MapConfigurationViewSet_list
    \/ MapConfigurationViewSet_create
    \/ MapConfigurationViewSet_update
    \/ MapConfigurationViewSet_destroy
    \/ ResponseSent

SpecMapConfig == Init /\ [][NextMapConfig]_vars

\* ------------------------------------------------ Project, LabelPosition
CascadeKeepsRows(rows, p) == rows

\* on_delete=models.CASCADE of a `project` foreign key: the rows that are
\* left when project p is deleted.
Cascade(rows, p) == {r \in rows : r.project # p}

\* POST projects/
ProjectViewSet_create ==
    /\ Arrive
    /\ \E p \in ProjectIds \ projects :
        /\ projects' = projects \cup {p}
        /\ last' = [NoRequest EXCEPT !.op = "create_project", !.project = p,
                        !.status = 201]
    /\ UNCHANGED <<market_areas, presets, ledger, map_configurations,
                   label_positions, tcg_themes, inflight, now>>

\* LabelPosition rows when project p and the map configurations `maps` are
\* deleted.  The rows of p go with it; a row of another project that names
\* one of `maps` either goes too or loses the reference (set_null tells),
\* as the foreign key has it.
LabelPositionCascade(rows, p, maps, set_null) ==
    {[r EXCEPT !.map_configuration = IF @ \in maps THEN NoId ELSE @] :
        r \in {x \in rows : /\ x.project # p
                            /\ set_null \/ x.map_configuration \notin maps}}

\* DELETE projects/<p>/: the collector deletes the rows that reference the
\* project, then the project.
ProjectViewSet_destroy ==
    /\ Arrive
    /\ \E p \in ProjectIds, set_null \in BOOLEAN :
        LET req  == [NoRequest EXCEPT !.op = "destroy_project", !.project = p]
            maps == {c.id : c \in {x \in map_configurations : x.project = p}}
        IN  IF p \notin projects
            THEN /\ last' = [req EXCEPT !.status = 404]
                 /\ UNCHANGED <<projects, market_areas, presets, ledger,
                                map_configurations, label_positions>>
            ELSE /\ projects' = projects \ {p}
                 /\ market_areas' = Cascade(market_areas, p)
                 /\ presets' = Cascade(presets, p)
                 /\ ledger' = Cascade(ledger, p)
                 /\ map_configurations' = Cascade(map_configurations, p)
                 /\ label_positions' =
                        LabelPositionCascade(label_positions, p, maps, set_null)
                 /\ last' = [req EXCEPT !.status = 204]
    /\ UNCHANGED <<tcg_themes, inflight, now>>

\* map_configuration_id values of a body: missing or the id of the first tab.
BodyMapIds == {NoId, 1}
\* label_id values of the labels of a map.
LabelNames == {"a", "b"}
\* x_offset values of a body.  y_offset, font_size, text and visibility are
\* read and written by the same statements as x_offset, which stands for
\* them.
BodyOffsets == {Absent, 5, 7}

\* An element of `labels`: a dict with or without (NULL) a label_id and an
\* x_offset, or a value that is no dict.
NotADict == [dict |-> FALSE, label_id |-> NULL, x_offset |-> Absent]
NoLabelId == [dict |-> TRUE, label_id |-> NULL, x_offset |-> Absent]
LabelItems ==
    [dict : {TRUE}, label_id : LabelNames, x_offset : BodyOffsets]
        \cup {NoLabelId, NotADict}
LabelLists == UNION {SeqsOfLen(LabelItems, n) : n \in 0..MaxLabels}

\* LabelPosition.objects.create(...): x_offset defaults to 0.
NewLabelPosition(project, map_config, label_id, x_offset) ==
    [project |-> project, map_configuration |-> map_config,
     label_id |-> label_id,
     x_offset |-> IF x_offset = Absent THEN 0 ELSE x_offset]

\* The update branch of batch_save:
\* x_offset = label_data.get('x_offset', label_position.x_offset);
\* if map_config: label_position.map_configuration = map_config
BatchUpdate(row, label, map_config) ==
    [row EXCEPT !.x_offset = IF label.x_offset = Absent THEN @ ELSE label.x_offset,
                !.map_configuration = IF map_config = NoId THEN @ ELSE map_config]

BatchSaveInsertOnly(db, label, project, map_config) ==
    [db |-> db \cup {NewLabelPosition(project, map_config,
                                      label.label_id, label.x_offset)},
     ok |-> TRUE]

\* One pass of the loop of batch_save for a label with a label_id:
\* LabelPosition.objects.get(project=project, label_id=label_id), which
\* raises MultipleObjectsReturned when two rows match, then the update of
\* the row found or the create of a new one.
BatchSaveOne(db, label, project, map_config) ==
    LET found == {r \in db : r.project = project /\ r.label_id = label.label_id}
    IN  IF Cardinality(found) > 1 THEN [db |-> db, ok |-> FALSE]
        ELSE IF found = {}
        THEN [db |-> db \cup {NewLabelPosition(project, map_config,
                                    label.label_id, label.x_offset)},
              ok |-> TRUE]
        ELSE LET row == CHOOSE r \in found : TRUE
             IN  [db |-> (db \ {row}) \cup {BatchUpdate(row, label, map_config)},
                  ok |-> TRUE]

\* The loop of batch_save over `labels`.  label_data.get raises on a value
\* that is no dict; a label without label_id is skipped.  The loop runs in
\* no transaction: what it has saved when it raises stays saved.
RECURSIVE BatchSaveLoop(_, _, _, _)
BatchSaveLoop(db, labels, project, map_config) ==
    IF labels = <<>> THEN [db |-> db, ok |-> TRUE]
    ELSE LET label == Head(labels)
         IN  IF ~label.dict THEN [db |-> db, ok |-> FALSE]
             ELSE IF label.label_id = NULL
             THEN BatchSaveLoop(db, Tail(labels), project, map_config)
             ELSE LET res == BatchSaveOne(db, label, project, map_config)
                  IN  IF ~res.ok THEN res
                      ELSE BatchSaveLoop(res.db, Tail(labels), project, map_config)

\* POST label-positions/batch_save/
LabelPositionViewSet_batch_save ==
    /\ Arrive
    /\ \E project \in {NULL} \cup ProjectIds, map \in BodyMapIds,
          labels \in LabelLists :
        LET req == [NoRequest EXCEPT !.op = "batch_save", !.project = project,
                        !.map = map, !.labels = labels]
        IN  IF project = NULL \/ labels = <<>>
            THEN /\ last' = [req EXCEPT !.status = 400]
                 /\ UNCHANGED label_positions
            ELSE IF \/ project \notin projects
                    \/ map # NoId /\ map \notin {c.id : c \in map_configurations}
            THEN /\ last' = [req EXCEPT !.status = 404]
                 /\ UNCHANGED label_positions
            ELSE LET res == BatchSaveLoop(label_positions, labels, project, map)
                 IN  /\ label_positions' = res.db
                     /\ last' = [req EXCEPT !.status = IF res.ok THEN 200 ELSE 400]
    /\ UNCHANGED <<market_areas, presets, ledger, map_configurations, projects,
                   tcg_themes, inflight, now>>

\* POST label-positions/reset_all/?project=<p>&map_configuration=<map>
LabelPositionViewSet_reset_all ==
    /\ Arrive
    /\ \E project \in {NULL} \cup ProjectIds, map \in BodyMapIds :
        LET req == [NoRequest EXCEPT !.op = "reset_all", !.project = project,
                        !.map = map]
            queryset == {r \in label_positions :
                            /\ r.project = project
                            /\ map # NoId => r.map_configuration = map}
        IN  IF project = NULL
            THEN /\ last' = [req EXCEPT !.status = 400]
                 /\ UNCHANGED label_positions
            ELSE /\ label_positions' = label_positions \ queryset
                 /\ last' = [req EXCEPT !.status = 200]
    /\ UNCHANGED <<market_areas, presets, ledger, map_configurations, projects,
                   tcg_themes, inflight, now>>

NextLabel ==
    \/ LabelPositionViewSet_batch_save
    \/ LabelPositionViewSet_reset_all
    \/ ProjectViewSet_create
    \/ ProjectViewSet_destroy
    \/ ResponseSent

SpecLabel == Init /\ [][NextLabel]_vars

\* The bodies of the requests that fill a project in the part below: one
\* market-area name, one tab of one content, one user and cost, one label.
PlainBody ==
    /\ last'.name \in {NULL, "North", "Map 1"}
    /\ last'.body_order = Absent
    /\ last'.data \in {NULL, "cfgA"}
    /\ last'.user \in {NoId, 1}
    /\ last'.cost \in {NULL, "3.00"}
    /\ last'.labels \in {<<>>, <<[dict |-> TRUE, label_id |-> "a", x_offset |-> 5]>>}
    /\ last'.style = NotSent

\* Projects are created, filled and deleted.
NextProject ==
    \/ ProjectViewSet_create
    \/ ProjectViewSet_destroy
    \/ now <= MaxProjectTime /\ MarketAreaList_create /\ PlainBody
    \/ now <= MaxProjectTime /\ MapConfigurationViewSet_create /\ PlainBody
    \/ now <= MaxProjectTime /\ EnrichmentUsageViewSet_record_usage /\ PlainBody
    \/ now <= MaxProjectTime /\ LabelPositionViewSet_batch_save /\ PlainBody
    \/ ResponseSent

SpecProject == Init /\ [][NextProject]_vars

\* ------------------------------------------------------ ColorKey, TcgTheme
\* The ColorKey rows import_colors stores, with their pks.
ColorKeys == {[id |-> 1, key_number |-> "1"], [id |-> 2, key_number |-> "2"]}
\* The TcgTheme rows import_colors stores: theme_key and color_key_number.
ThemesData == <<[theme_key |-> "A", color_key_number |-> "1"],
                [theme_key |-> "B", color_key_number |-> "2"]>>
ThemeIds == 1..Len(ThemesData)
\* color_key_id values of a body: not sent, null, the keys, the id of no key.
BodyColorKeyIds == {Absent, NoId} \cup {k.id : k \in ColorKeys} \cup {3}
\* fill_color values of a body: not sent, blank, a literal, a key number.
BodyFillColors == {NotSent, "", "#fff", "2"}

\* ColorKey.objects.get(id=color_key_id): the rows found.
ColorKeyGet(color_key_id) == {k \in ColorKeys : k.id = color_key_id}

\* The loop of import_colors over tcg_themes_data:
\* TcgTheme.objects.get_or_create(theme_key=..., defaults={..., 'color_key':
\* color_key}); fill_color keeps its default ''.
RECURSIVE ImportThemes(_, _)
ImportThemes(db, data) ==
    IF data = <<>> THEN db
    ELSE LET tt_data == Head(data)
             color_key == CHOOSE k \in ColorKeys :
                              k.key_number = tt_data.color_key_number
             fresh == CHOOSE i \in FreshIds(ThemeIds, {t.id : t \in db}) : TRUE
         IN  IF \E t \in db : t.theme_key = tt_data.theme_key
             THEN ImportThemes(db, Tail(data))
             ELSE ImportThemes(db \cup {[id |-> fresh,
                                         theme_key |-> tt_data.theme_key,
                                         color_key |-> color_key.id,
                                         fill_color |-> ""]},
                               Tail(data))

\* manage.py import_colors
import_colors ==
    /\ last = NoRequest
    /\ tcg_themes' = ImportThemes(tcg_themes, ThemesData)
    /\ tcg_themes' # tcg_themes
    /\ UNCHANGED <<market_areas, presets, ledger, map_configurations, projects,
                   label_positions, inflight, now, last, before>>

\* TcgThemeSerializer.update from `if color_key_id:` on, for a color_key_id
\* that names a key or is None: the two branches, then the loop
\* `for attr, value in validated_data.items(): setattr(instance, attr, value)`
\* over what is left of the body after the pop of color_key_id.
TcgThemeSerializer_update(instance, color_key_id, fill_color) ==
    LET branch ==
            IF color_key_id # NoId
            THEN LET color_key == CHOOSE k \in ColorKeyGet(color_key_id) : TRUE
                 IN  [instance EXCEPT !.color_key = color_key.id,
                                      !.fill_color = color_key.key_number]
            ELSE IF fill_color # NotSent /\ fill_color # ""
            THEN [instance EXCEPT !.fill_color = fill_color, !.color_key = NoId]
            ELSE instance
    IN  IF fill_color = NotSent THEN branch
        ELSE [branch EXCEPT !.fill_color = fill_color]

\* PATCH tcg-themes/<id>/.  A blank fill_color does not pass the serializer
\* (400); validated_data.pop('color_key_id', None) makes a color_key_id that
\* is not sent a None; a color_key_id of no key raises ValidationError
\* before anything is saved.
TcgThemeViewSet_update ==
    /\ Arrive
    /\ \E id \in ThemeIds, body_key \in BodyColorKeyIds, fill_color \in BodyFillColors :
        LET req == [NoRequest EXCEPT !.op = "update_theme", !.id = id,
                        !.color_key_id = body_key, !.fill_color = fill_color]
            found == {t \in tcg_themes : t.id = id}
            color_key_id == IF body_key = Absent THEN NoId ELSE body_key
        IN  IF found = {}
            THEN /\ last' = [req EXCEPT !.status = 404]
                 /\ UNCHANGED tcg_themes
            ELSE IF fill_color = ""
                    \/ (color_key_id # NoId /\ ColorKeyGet(color_key_id) = {})
            THEN /\ last' = [req EXCEPT !.status = 400]
                 /\ UNCHANGED tcg_themes
            ELSE LET instance == CHOOSE t \in found : TRUE
                 IN  /\ tcg_themes' = (tcg_themes \ found) \cup
                            {TcgThemeSerializer_update(instance, color_key_id,
                                                       fill_color)}
                     /\ last' = [req EXCEPT !.status = 200]
    /\ UNCHANGED <<market_areas, presets, ledger, map_configurations, projects,
                   label_positions, inflight, now>>

\* DELETE tcg-themes/<id>/
TcgThemeViewSet_destroy ==
    /\ Arrive
    /\ \E id \in ThemeIds :
        LET req == [NoRequest EXCEPT !.op = "destroy_theme", !.id = id]
            found == {t \in tcg_themes : t.id = id}
        IN  IF found = {}
            THEN /\ last' = [req EXCEPT !.status = 404]
                 /\ UNCHANGED tcg_themes
            ELSE /\ tcg_themes' = tcg_themes \ found
                 /\ last' = [req EXCEPT !.status = 204]
    /\ UNCHANGED <<market_areas, presets, ledger, map_configurations, projects,
                   label_positions, inflight, now>>

NextTcgTheme ==
    \/ import_colors
    \/ TcgThemeViewSet_update
    \/ TcgThemeViewSet_destroy
    \/ ResponseSent

SpecTcgTheme == Init /\ [][NextTcgTheme]_vars

\* ------------------------------------------------ claims on market areas
ProjectMaIds(db, p) == {m.id : m \in {x \in db : x.project = p}}
ListedIds(order) == {order[i].id : i \in DOMAIN order}
OrderIds(order) == [i \in DOMAIN order |-> order[i].id]
HasDuplicate(order) == \E i, j \in DOMAIN order : i # j /\ order[i].id = order[j].id
OrdersOf(db) == {<<m.id, m.order>> : m \in db}
\* order is a permutation of the complete id set the project had on arrival
FullPermutation(order) ==
    /\ ListedIds(order) = ProjectMaIds(before.market_areas, last.project)
    /\ ~HasDuplicate(order)
ListedCarryIndex ==
    \A i \in DOMAIN last.order :
        \E m \in market_areas : /\ m.id = last.order[i].id
                                /\ m.project = last.project
                                /\ m.order = i - 1

\* C1: after a successful reorder whose list is a permutation p of all the
\* market-area ids of the project, the list fetch of the project returns the
\* market areas in exactly the order p.
C1_ReorderThenListIsP ==
    (last.op = "reorder" /\ last.status = 200 /\ FullPermutation(last.order))
        => IdsOf(MarketAreaList(market_areas, last.project)) = OrderIds(last.order)

\* three market areas of a project are put into another order
C1_Witness ==
    /\ last.op = "reorder" /\ last.status = 200 /\ FullPermutation(last.order)
    /\ Len(last.order) = 3
    /\ IdsOf(MarketAreaList(before.market_areas, last.project)) # OrderIds(last.order)

\* C2: after a successful reorder the stored order of every market area
\* named in the list is its zero-based index in the list.
C2_OrderIsZeroBasedIndex ==
    (last.op = "reorder" /\ last.status = 200) => ListedCarryIndex

\* market areas 1, 2, 3 of a project reordered with [3, 1, 2]
C2_Witness ==
    /\ last.op = "reorder" /\ last.status = 200
    /\ OrderIds(last.order) = <<3, 1, 2>>
    /\ OrdersOf(market_areas) = {<<3, 0>>, <<1, 1>>, <<2, 2>>}
    /\ OrdersOf(market_areas) # OrdersOf(before.market_areas)

\* C3: a reorder whose list names an id that is not of the project, or names
\* an id twice, is answered 400 and leaves every order as it was.
C3_ForeignOrDuplicateRejected ==
    (/\ last.op = "reorder"
     /\ \/ ~(ListedIds(last.order) \subseteq ProjectMaIds(before.market_areas, last.project))
        \/ HasDuplicate(last.order))
        => /\ last.status = 400
           /\ OrdersOf(market_areas) = OrdersOf(before.market_areas)

\* a superset of the project's ids: all of them (two) and one of another project
C3_Witness ==
    /\ last.op = "reorder" /\ last.status = 400 /\ ~HasDuplicate(last.order)
    /\ Cardinality(ProjectMaIds(before.market_areas, last.project)) = 2
    /\ ProjectMaIds(before.market_areas, last.project) \subseteq ListedIds(last.order)
    /\ \E m \in before.market_areas :
            m.project # last.project /\ m.id \in ListedIds(last.order)

StrictSubset(order) ==
    /\ ListedIds(order) \subseteq ProjectMaIds(before.market_areas, last.project)
    /\ ListedIds(order) # ProjectMaIds(before.market_areas, last.project)
    /\ ~HasDuplicate(order)

\* C4: a reorder whose list is a strict subset of the project's ids (each
\* listed id of the project and listed once, at least one id of the project
\* left out, every id in the spelling str() gives it) fails with a validation
\* error and leaves every order as it was.
C4_SubsetRejected ==
    (/\ last.op = "reorder" /\ StrictSubset(last.order)
     /\ \A i \in DOMAIN last.order : last.order[i].canon)
        => /\ last.status \in 400..499
           /\ OrdersOf(market_areas) = OrdersOf(before.market_areas)

\* C5: a reorder is all-or-nothing: once the request has been answered,
\* either every listed market area carries its new index or every market
\* area carries the order it had when the request arrived.
C5_AllOrNothing ==
    last.op = "reorder"
        => \/ ListedCarryIndex
           \/ OrdersOf(market_areas) = OrdersOf(before.market_areas)

\* the loop saved a row and then raised: the request is answered 500
C5_Witness ==
    /\ last.op = "reorder" /\ last.status = 500
    /\ LET rows == FilterIdIn(before.market_areas, last.project, last.order)
           res  == SaveRows(before.market_areas, SortRows(rows),
                            OrderMapping(last.order), now)
       IN  ~res.ok /\ OrdersOf(res.db) # OrdersOf(before.market_areas)

\* C6: a market area created without an explicit order gets
\* max(order of the project's market areas) + 1, and 0 in an empty project.
C6_CreateAssignsMaxPlusOne ==
    (last.op = "create" /\ last.status = 201 /\ last.body_order = Absent)
        => \E m \in market_areas :
            /\ m.id = last.id
            /\ m.order = IF ProjectMaIds(before.market_areas, last.project) = {}
                         THEN 0
                         ELSE MaxOrder(before.market_areas, last.project) + 1

\* C7: creating, updating or deleting a market area never changes the order
\* of a market area that existed before the request.
C7_OrderStableOutsideReorder ==
    last.op \in {"create", "update", "destroy"}
        => \A m \in before.market_areas, n \in market_areas :
                m.id = n.id => m.order = n.order

\* an update that sends another order for a market area is answered 200
C7_Witness ==
    /\ last.op = "update" /\ last.status = 200 /\ last.body_order # Absent
    /\ \E m \in before.market_areas : m.id = last.id /\ m.order # last.body_order
    /\ Cardinality(market_areas) >= 2
\* ------------------------------------------------------ claims on presets
\* the presets of a kind that a request with ?project=ctx may see
Visible(kind, ctx) == Range(PresetQueryset(presets, kind, ctx))

\* C8: a preset listing, of either kind, returns each preset at most once;
\* with ?project=P it returns exactly the presets of project P and the
\* global presets, without it exactly the global presets.
C8_ListingIsProjectOrGlobal ==
    last.op = "list"
        => /\ \A i, j \in DOMAIN last.body : last.body[i] = last.body[j] => i = j
           /\ Range(last.body) =
                {r.id : r \in {x \in presets :
                    /\ x.kind = last.kind
                    /\ \/ x.is_global
                       \/ (last.ctx # NULL /\ x.project = last.ctx)}}

\* a listing for project P with a preset of P, a global preset and a
\* non-global preset of another project Q, which is left out
C8_Witness ==
    /\ last.op = "list" /\ last.ctx # NULL /\ Len(last.body) = 2
    /\ \E r1, r2, r3 \in presets :
        /\ r1.kind = last.kind /\ r2.kind = last.kind /\ r3.kind = last.kind
        /\ r1.project = last.ctx /\ ~r1.is_global
        /\ r2.is_global
        /\ r3.project \in ProjectIds \ {last.ctx} /\ ~r3.is_global
        /\ Range(last.body) = {r1.id, r2.id}

\* C9: for every project P the presets visible with P include
\* those visible with no project, and the rest of them are exactly the
\* presets whose project is P.
C9_DifferenceIsProjectP ==
    \A kind \in PresetKinds, P \in ProjectIds :
        /\ Visible(kind, NULL) \subseteq Visible(kind, P)
        /\ Visible(kind, P) \ Visible(kind, NULL)
                = {r \in presets : r.kind = kind /\ r.project = P}

\* C10: a make-global request answered 200 for a style preset that had a
\* project and was not global leaves it with is_global = true and
\* project = null, and among the presets listed with no project.
C10_MakeGlobalPromotes ==
    (/\ last.op = "make_global" /\ last.kind = "style" /\ last.status = 200
     /\ \E o \in before.presets :
            o.id = last.id /\ o.kind = "style" /\ o.project # NULL /\ ~o.is_global)
        => \E r \in presets :
            /\ r.id = last.id /\ r.kind = "style"
            /\ r.is_global /\ r.project = NULL
            /\ r \in Visible("style", NULL)

C10_Witness ==
    /\ last.op = "make_global" /\ last.kind = "style" /\ last.status = 200
    /\ \E o \in before.presets :
            /\ o.id = last.id /\ o.kind = "style" /\ o.name = "S1"
            /\ o.project # NULL /\ ~o.is_global
    /\ \E r \in Visible("style", NULL) : r.id = last.id /\ r.name = "S1"

\* C11: make-global is idempotent: once a make-global request has been
\* answered, the same request again leaves the presets as they are; and a
\* make-global request for a preset that was global already has changed
\* nothing.
C11_MakeGlobalIdempotent ==
    last.op = "make_global"
        => /\ make_global(presets, last.kind, last.ctx, last.id, now).presets = presets
           /\ (\E o \in before.presets :
                    o.id = last.id /\ o.kind = last.kind /\ o.is_global)
                => presets = before.presets

\* the second call in a row: a style preset is global only through an
\* earlier make-global, and the request for it is answered 200
C11_Witness ==
    /\ last.op = "make_global" /\ last.kind = "style" /\ last.status = 200
    /\ \E o \in before.presets :
            /\ o.id = last.id /\ o.kind = "style" /\ o.is_global
            /\ o.last_modified < now - 1

\* C12: every preset with is_global = true has project = null.
C12_GlobalHasNoProject ==
    \A r \in presets : r.is_global => r.project = NULL

\* C13: promotion is irreversible: no step takes a preset whose is_global is
\* true to a state where the preset is still there and its is_global is false.
C13_NeverDemoted ==
    [][\A o \in presets : \A r \in presets' :
            (o.id = r.id /\ o.kind = r.kind /\ o.is_global) => r.is_global]_vars

\* an update that sends is_global = false for a global variable preset is
\* answered 200 and the preset is still global
C13_Witness ==
    /\ last.op = "update" /\ last.kind = "variable" /\ last.status = 200
    /\ ~last.body_global
    /\ \E o \in before.presets : o.id = last.id /\ o.kind = "variable" /\ o.is_global
    /\ \E r \in presets :
            r.id = last.id /\ r.is_global /\ r.last_modified = now - 1

\* C14: a create request for a preset that carries both a project and
\* is_global = true fails with a validation error and creates no preset.
C14_ProjectAndGlobalRejected ==
    (/\ last.op = "create" /\ last.kind \in PresetKinds
     /\ last.project # NULL /\ last.body_global)
        => /\ last.status \in 400..499
           /\ presets = before.presets

\* ------------------------------------------------- claims on the usage ledger
\* C15: record-usage answers a negative cost, and a cost with more than 2
\* fractional digits, with a validation error and appends no ledger row; it
\* accepts a non-negative cost with 2 fractional digits (sent with a known
\* user and project).
C15_CostValidated ==
    last.op = "record_usage"
        => LET d == Decimal(last.cost)
           IN  /\ (d # InvalidOperation /\ (d.unscaled < 0 \/ d.scale > 2))
                    => (last.status \in 400..499 /\ ledger = before.ledger)
               /\ (/\ d # InvalidOperation /\ d.unscaled >= 0 /\ d.scale = 2
                   /\ last.user \in UserIds /\ last.project \in ProjectIds)
                    => last.status = 201

\* C16: a successful record-usage adds exactly one row, with a new id, and
\* leaves every row the ledger had present and unchanged.
C16_AppendOnly ==
    (last.op = "record_usage" /\ last.status = 201)
        => /\ before.ledger \subseteq ledger
           /\ Cardinality(ledger \ before.ledger) = 1
           /\ \A r \in ledger \ before.ledger :
                r.id = last.id /\ r.id \notin {o.id : o \in before.ledger}

\* usage is recorded for a user and project that have a row of the same day
C16_Witness ==
    /\ last.op = "record_usage" /\ last.status = 201
    /\ \E o \in before.ledger, r \in ledger \ before.ledger :
            /\ o.user = r.user /\ o.project = r.project
            /\ Day(o.timestamp) = Day(r.timestamp)

\* the rows of a user that are at most thirty days old
WindowRows(user) ==
    {r \in ledger : r.user = user /\ now - r.timestamp <= ThirtyDays}

RECURSIVE TotalOf(_)
TotalOf(rows) ==
    IF rows = {} THEN 0
    ELSE LET r == CHOOSE x \in rows : \A y \in rows : x.id <= y.id
         IN  r.cost + TotalOf(rows \ {r})

\* C17: usage-stats-all answers with one entry per known user; the entry's
\* count is the number of the user's rows with timestamp >= now - 30 days,
\* its total the sum of their costs, both 0 for a user without such rows.
C17_StatsCoverEveryUser ==
    last.op = "usage_stats_all"
        => /\ DOMAIN last.stats = UserIds
           /\ \A u \in UserIds :
                /\ last.stats[u].total_enrichments = Cardinality(WindowRows(u))
                /\ last.stats[u].total_cost = TotalOf(WindowRows(u))
                /\ (\A r \in ledger : r.user # u)
                    => last.stats[u] = [total_enrichments |-> 0, total_cost |-> 0]

\* one user has a row of cost 3.00 that is thirty days old to the tick and
\* an older row, the other user has no row
C17_Witness ==
    /\ last.op = "usage_stats_all"
    /\ \E r1, r2 \in ledger :
        /\ r1.user = r2.user
        /\ r1.cost = 300 /\ r1.timestamp = now - ThirtyDays
        /\ r2.timestamp < now - ThirtyDays
        /\ last.stats[r1.user] = [total_enrichments |-> 1, total_cost |-> 300]
    /\ \E u \in UserIds :
        /\ \A r \in ledger : r.user # u
        /\ last.stats[u] = [total_enrichments |-> 0, total_cost |-> 0]

\* the ledger row a line of the export stands for
ExportedRow(i) == CHOOSE r \in ledger : r.id = last.body[i]

\* C18: the export has one line per ledger row whose day lies in
\* [start_date, end_date] (a bound that is not given does not restrict) and
\* whose user is in the allow-list (none given: every user), and no other
\* line; the lines of one user are together, the newest first.
C18_ExportSelectsAndOrders ==
    last.op = "export_usage_stats"
        => LET sel == {r \in ledger :
                        /\ last.start # Absent => Day(r.timestamp) >= last.start
                        /\ last.end # Absent => Day(r.timestamp) <= last.end
                        /\ last.users # {} => r.user \in last.users}
           IN  /\ Len(last.body) = Cardinality(sel)
               /\ Range(last.body) = {r.id : r \in sel}
               /\ \A i, j \in DOMAIN last.body :
                    (i < j /\ ExportedRow(i).user = ExportedRow(j).user)
                        => /\ ExportedRow(i).timestamp >= ExportedRow(j).timestamp
                           /\ \A k \in i..j : ExportedRow(k).user = ExportedRow(i).user

\* an export with both dates: two rows of the end day, the later one of its
\* last tick, come out newest first; a row of an earlier day is left out
C18_Witness ==
    /\ last.op = "export_usage_stats" /\ last.start # Absent /\ last.end # Absent
    /\ Len(last.body) = 2
    /\ Day(ExportedRow(1).timestamp) = last.end
    /\ Day(ExportedRow(2).timestamp) = last.end
    /\ ExportedRow(1).timestamp > ExportedRow(2).timestamp
    /\ \E r \in ledger : Day(r.timestamp) < last.start

\* ----------------------------------------------- claims on concurrent creates
\* C19: no two market areas of one project share a name; and of two
\* requests that run at the same time and create a market area of the same
\* name in the same project, the name being free when each arrived, one is
\* answered 201 and the other with a 4xx status.
C19_OneCreateWins ==
    /\ \A m, n \in market_areas :
            (m.project = n.project /\ m.name = n.name) => m.id = n.id
    /\ \A v, w \in Workers :
        (/\ v # w
         /\ inflight[v].pc = "done" /\ inflight[w].pc = "done"
         /\ inflight[v].project = inflight[w].project
         /\ inflight[v].name = inflight[w].name
         /\ ~inflight[v].taken /\ ~inflight[w].taken)
            => \/ inflight[v].status = 201 /\ inflight[w].status \in 400..499
               \/ inflight[w].status = 201 /\ inflight[v].status \in 400..499

\* both requests passed validation before either row was inserted
C19_Witness ==
    /\ inflight[1].pc = "done" /\ inflight[2].pc = "done"
    /\ inflight[1].project = inflight[2].project
    /\ inflight[1].name = inflight[2].name
    /\ ~inflight[1].taken /\ ~inflight[2].taken
    /\ inflight[2].status = 201 /\ inflight[1].status = 400
    /\ Cardinality({m \in market_areas : m.project = inflight[1].project
                                          /\ m.name = inflight[1].name}) = 1

\* -------------------------------------------- claims on map configurations
\* the configurations of the request's project and tab_name, now and on arrival
SameTab(db) == {c \in db : c.project = last.project /\ c.tab_name = last.name}

\* C20: a create whose tab_name exists in the project is answered 201;
\* afterwards the project has exactly one configuration of that tab_name,
\* it is the new record with the request's data, and the old one is gone.
C20_CreateReplaces ==
    (last.op = "create_map" /\ SameTab(before.map_configurations) # {})
        => /\ last.status = 201
           /\ \E c \in map_configurations :
                /\ SameTab(map_configurations) = {c}
                /\ c.id = last.id /\ c.data = last.data
                /\ c \notin before.map_configurations

\* C20 as the code has it: a create whose tab_name exists in the project is
\* answered 400 and changes nothing; the project still has exactly one
\* configuration of that tab_name, the old one with its data.
C20_CreateRejected ==
    (last.op = "create_map" /\ SameTab(before.map_configurations) # {})
        => /\ last.status = 400
           /\ map_configurations = before.map_configurations
           /\ Cardinality(SameTab(map_configurations)) = 1

\* a create with other data for a tab_name the project has
C20_Witness ==
    /\ last.op = "create_map" /\ last.status = 400
    /\ \E c \in before.map_configurations :
        /\ c.project = last.project /\ c.tab_name = last.name
        /\ c.data # last.data
        /\ c \in map_configurations

\* ------------------------------------------------------ claims on projects
RowsOfProject(t, p) ==
    {r \in t.market_areas : r.project = p}
        \cup {r \in t.map_configurations : r.project = p}
        \cup {r \in t.label_positions : r.project = p}
        \cup {r \in t.ledger : r.project = p}

\* C21: every market area, map configuration, label position and usage row
\* references a project that exists; once a project has been deleted no
\* such row of it is left.
C21_RowsReferenceAProject ==
    /\ \A r \in market_areas : r.project \in projects
    /\ \A r \in map_configurations : r.project \in projects
    /\ \A r \in label_positions : r.project \in projects
    /\ \A r \in ledger : r.project \in projects
    /\ (last.op = "destroy_project" /\ last.status = 204)
            => RowsOfProject(Tables, last.project) = {}

\* a project with a row in each of the four tables has been deleted
C21_Witness ==
    /\ last.op = "destroy_project" /\ last.status = 204
    /\ \E r \in before.market_areas : r.project = last.project
    /\ \E r \in before.map_configurations : r.project = last.project
    /\ \E r \in before.label_positions : r.project = last.project
    /\ \E r \in before.ledger : r.project = last.project
    /\ RowsOfProject(Tables, last.project) = {}

\* ------------------------------------------------------- claims on themes
ThemeAfter == CHOOSE t \in tcg_themes : t.id = last.id
SuppliesColorKey == last.color_key_id \notin {Absent, NoId}
SuppliesFillColor == last.fill_color # NotSent

\* C22: after a TcgTheme update that supplies a color_key_id the theme is
\* linked to that ColorKey and its fill_color is the key's key_number,
\* whatever else the body holds; after one that supplies a fill_color and no
\* color_key_id the theme has that fill_color and no color_key.
C22_ColoursFollowTheRule ==
    (last.op = "update_theme" /\ last.status = 200)
        => /\ SuppliesColorKey
                => /\ ThemeAfter.color_key = last.color_key_id
                   /\ \E k \in ColorKeys : /\ k.id = last.color_key_id
                                           /\ ThemeAfter.fill_color = k.key_number
           /\ (SuppliesFillColor /\ ~SuppliesColorKey)
                => /\ ThemeAfter.fill_color = last.fill_color
                   /\ ThemeAfter.color_key = NoId

\* ----------------------------------------------- claims on label positions
SameLabel(r, project, label_id) == r.project = project /\ r.label_id = label_id
\* the places of the request's list that name label_id
ItemsOf(labels, label_id) ==
    {i \in DOMAIN labels : labels[i].dict /\ labels[i].label_id = label_id}
\* the x_offset the request sends for label_id: that of the last place that
\* carries one
LatestOffset(labels, label_id) ==
    LET sent == {i \in ItemsOf(labels, label_id) : labels[i].x_offset # Absent}
    IN  IF sent = {} THEN Absent
        ELSE labels[CHOOSE i \in sent : \A j \in sent : j <= i].x_offset
OnePerLabel(db) ==
    \A r, q \in db : SameLabel(r, q.project, q.label_id) => r = q

\* C23: batch_save is an upsert keyed by (project, label_id).  Whenever the
\* table held at most one row per key when a batch_save arrived, it holds at
\* most one per key afterwards; after a batch_save answered 200 every
\* label_id of the request has its row in the project, with the x_offset and
\* the map configuration the request sent (what the request does not send
\* is kept from the row that was there, or takes the default in a new row),
\* and the rows of the other keys are as they were.
C23_BatchSaveIsUpsert ==
    /\ (last.op = "batch_save" /\ OnePerLabel(before.label_positions))
            => OnePerLabel(label_positions)
    /\ (last.op = "batch_save" /\ last.status = 200
        /\ OnePerLabel(before.label_positions))
            => /\ \A label_id \in LabelNames :
                    LET old == {o \in before.label_positions :
                                    SameLabel(o, last.project, label_id)}
                        new == {r \in label_positions :
                                    SameLabel(r, last.project, label_id)}
                        x   == LatestOffset(last.labels, label_id)
                    IN  IF ItemsOf(last.labels, label_id) = {} THEN new = old
                        ELSE \E r \in new :
                            /\ r.x_offset =
                                   IF x # Absent THEN x
                                   ELSE IF old = {} THEN 0
                                   ELSE (CHOOSE o \in old : TRUE).x_offset
                            /\ r.map_configuration =
                                   IF last.map # NoId THEN last.map
                                   ELSE IF old = {} THEN NoId
                                   ELSE (CHOOSE o \in old : TRUE).map_configuration
               /\ {r \in label_positions : r.project # last.project}
                    = {o \in before.label_positions : o.project # last.project}

\* one request updates the row of a label with a new x_offset and creates
\* the row of another label
C23_Witness ==
    /\ last.op = "batch_save" /\ last.status = 200
    /\ \E o \in before.label_positions, r, n \in label_positions :
        /\ SameLabel(o, last.project, "a") /\ SameLabel(r, last.project, "a")
        /\ o.x_offset = 5 /\ r.x_offset = 7
        /\ SameLabel(n, last.project, "b")
        /\ ~\E b \in before.label_positions : SameLabel(b, last.project, "b")
    /\ Cardinality({r \in label_positions : r.project = last.project}) = 2

\* C25: when reorder, batch_save, record_usage or a TcgTheme update answers
\* with an error, every table is as it was when the request arrived.
C25_ErrorChangesNothing ==
    (/\ last.op \in {"reorder", "batch_save", "record_usage", "update_theme"}
     /\ last.status >= 400)
        => Tables = before

\* ------------------------------------------- claims on concurrent reorders
\* the workers whose reorder of project p has been committed
Committed(p) ==
    {w \in Workers : /\ inflight[w].op = "reorder" /\ inflight[w].project = p
                     /\ inflight[w].pc = "done" /\ inflight[w].status = 200}
\* the orders that the list alone gives: the index of each id
OrdersBy(order) == {<<order[i].id, i - 1>> : i \in DOMAIN order}
OrdersIn(p) == {<<m.id, m.order>> : m \in {x \in market_areas : x.project = p}}

\* C24: when two reorder requests of one project, each with a permutation
\* of all its market-area ids, have both come to their end, the stored
\* orders are those that the list of the request committed last gives; no
\* market area carries an index of the other list.
C24_LastCommitWins ==
    \A p \in ProjectIds :
        (/\ \A w \in Workers : /\ inflight[w].op = "reorder"
                               /\ inflight[w].project = p
                               /\ inflight[w].pc = "done"
                               /\ inflight[w].status \in {200, 500}
         /\ Committed(p) # {})
            => LET w == CHOOSE v \in Committed(p) :
                          \A u \in Committed(p) :
                              inflight[u].commit <= inflight[v].commit
               IN  OrdersIn(p) = OrdersBy(inflight[w].order)

\* both requests read the same orders, so the second read before the first
\* committed; both are committed, with lists that differ, and the orders
\* stored are those of the second list
C24_Witness ==
    \E v, w \in Workers :
        /\ Committed("p1") = {v, w}
        /\ inflight[v].commit < inflight[w].commit
        /\ inflight[v].seen = inflight[w].seen
        /\ inflight[v].seen # OrdersBy(inflight[v].order)
        /\ inflight[v].order # inflight[w].order
        /\ OrdersIn("p1") = OrdersBy(inflight[w].order)
        /\ OrdersIn("p1") # OrdersBy(inflight[v].order)

\* --------------------------------------------------- claims on listings
\* the rows a listing is taken from
ListedTable ==
    IF last.op = "list_map" THEN map_configurations ELSE market_areas
ListedRow(i) == CHOOSE r \in ListedTable : r.id = last.body[i]

\* C26: in the list returned by reorder and in the map-configuration tab
\* list, of two rows of equal order the one with the later last_modified
\* comes first.
C26_TiesLaterModifiedFirst ==
    (last.op \in {"list_map", "reorder"} /\ last.status = 200)
        => \A i, j \in DOMAIN last.body :
                (i < j /\ ListedRow(i).order = ListedRow(j).order)
                    => ListedRow(i).last_modified > ListedRow(j).last_modified

\* ------------------------------------------- claims on presets, continued
\* the preset a make-global request names, as it was when the request came
Target == {r \in before.presets : r.id = last.id /\ r.kind = last.kind}
Promoted ==
    \E r \in Target, q \in presets :
        q.id = r.id /\ ~r.is_global /\ q.is_global

\* C27: a make-global request for a preset that has a project and is not
\* global, sent without ?project= or with another project, is answered 404
\* and changes no preset; a request that promotes a preset is scoped to the
\* project of that preset.
C27_MakeGlobalIsScoped ==
    last.op = "make_global"
        => /\ \A r \in Target :
                (~r.is_global /\ r.project # NULL /\ last.ctx # r.project)
                    => last.status = 404 /\ presets = before.presets
           /\ Promoted
                => \A r \in Target : r.project # NULL /\ last.ctx = r.project

\* a preset of one project is not promoted by a request scoped to another
C27_Witness ==
    /\ last.op = "make_global" /\ last.status = 404
    /\ last.ctx \in ProjectIds
    /\ \E r \in Target : ~r.is_global /\ r.project \in ProjectIds \ {last.ctx}
    /\ presets = before.presets

\* C29: every variable preset is global and has no project, whatever the
\* body of the create or update said, and is in the variable-preset listing
\* of every project and of the context without a project.
C29_VariablePresetsAreGlobal ==
    \A r \in presets :
        r.kind = "variable"
            => /\ r.is_global /\ r.project = NULL
               /\ \A ctx \in ProjectIds \cup {NULL} :
                    r \in Range(PresetQueryset(presets, "variable", ctx))

\* a variable preset created with a project and is_global = false in the body
C29_Witness ==
    /\ last.op = "create" /\ last.kind = "variable" /\ last.status = 201
    /\ last.project \in ProjectIds /\ ~last.body_global
    /\ \E r \in presets : r.id = last.id /\ r.is_global /\ r.project = NULL

\* C30 as stated: no two presets of a kind share name and is_global, and no
\* two share project and name, two presets without a project included.
C30_NoTwoShareProjectAndName ==
    \A r, q \in presets :
        (r # q /\ r.kind = q.kind /\ r.name = q.name)
            => r.is_global # q.is_global /\ r.project # q.project

\* C30, amended: no two presets of a kind share name and is_global, and no
\* two presets that have a project share project and name; a create or
\* make-global that is not answered with success leaves every preset as it
\* was.
C30_NamesAreUnique ==
    /\ \A r, q \in presets :
            (r # q /\ r.kind = q.kind /\ r.name = q.name)
                => /\ r.is_global # q.is_global
                   /\ r.project = NULL \/ r.project # q.project
    /\ (last.op \in {"create", "make_global"} /\ last.status >= 400)
            => presets = before.presets

\* promoting a preset whose name a global preset already has is refused
C30_Witness ==
    /\ last.op = "make_global" /\ last.status = 500
    /\ \E r \in Target, g \in before.presets :
            /\ ~r.is_global /\ g.is_global
            /\ g.kind = r.kind /\ g.name = r.name /\ g.id # r.id
    /\ presets = before.presets

\* ------------------------------------------------- claims on the reorder frame
\* the ids a reorder request lists
Listed == {last.order[i].id : i \in DOMAIN last.order}
\* the row of a market area before the request and after it
RowBefore(id) == CHOOSE m \in before.market_areas : m.id = id
RowAfter(id) == CHOOSE m \in market_areas : m.id = id

\* C28: a reorder request for project P leaves every market area of another
\* project and every market area that its list does not name exactly as it
\* was, creates and deletes none, and keeps the project, the name and the
\* style_settings of the market areas it names.
C28_ReorderFrame ==
    last.op = "reorder"
        => /\ {m.id : m \in market_areas} = {m.id : m \in before.market_areas}
           /\ \A m \in before.market_areas :
                /\ (m.project # last.project \/ m.id \notin Listed)
                        => m \in market_areas
                /\ RowAfter(m.id).project = m.project
                /\ RowAfter(m.id).name = m.name
                /\ RowAfter(m.id).style_settings = m.style_settings

\* a reorder that moves a market area with a style of its own, beside a
\* market area of the project that the list does not name and a market
\* area of another project
C28_Witness ==
    /\ last.op = "reorder" /\ last.status = 200
    /\ \E m \in before.market_areas :
            /\ m.project = last.project /\ m.id \in Listed
            /\ m.style_settings # DefaultStyle
            /\ RowAfter(m.id).order # m.order
    /\ \E m \in before.market_areas :
            m.project = last.project /\ m.id \notin Listed
    /\ \E m \in before.market_areas : m.project # last.project
====
